---- MODULE Spec2Model ----
(***************************************************************************)
(* Model of the WebSocket agent client: frame handling and fragment        *)
(* reassembly (src/src/client.py), fragment detection and reply extraction *)
(* (src/src/utils.py), the responder and its readiness check               *)
(* (src/src/agent.py), and startup (src/src/config.py, src/src/main.py).   *)
(***************************************************************************)
EXTENDS Integers, Sequences, FiniteSets, TLC

VARIABLES
    config,             \* the attributes of Config, as the environment set them
    system_prompt,      \* OllamaAgent.system_prompt
    startup,            \* what main met on its way: the prompt file, the model list
    auto_mode,          \* WebSocketClient.auto_mode
    enable_fragments,   \* WebSocketClient.enable_fragments
    fragments,          \* WebSocketClient.fragments : fragment_id -> list of records
    message_buffer,     \* WebSocketClient.message_buffer
    pc,                 \* position of main(): "validate", "init_agent",
                        \* "test_connection", "exited"; and of run():
                        \* "connecting", "recv", "dispatch", "manual", "closed"
    closed_by,          \* why run() ended ("" while it is running)
    inbox,              \* frames delivered by the transport, not yet read
    sent,               \* frames handed to websocket.send, in order
    pending,            \* the message handed to the responder / operator
    last,               \* observation of the latest handle_message call
    cycle,              \* per group: fragments ingested since its last emission
    stats,              \* per group: fragments seen, fragments used, emissions;
                        \* the frames that arrived and how many were read;
                        \* the latest input of the operator
    agent               \* responder calls started and returned, the latest outcome

main_vars == <<config, system_prompt, startup>>

vars == <<config, system_prompt, startup, auto_mode, enable_fragments, fragments, message_buffer, pc, closed_by,
          inbox, sent, pending, last, cycle, stats, agent>>

-----------------------------------------------------------------------------
(* Bounds *)

MaxTotal == 3        \* largest declared total among the fragment frames
MaxCalls == 4        \* handle_message calls in the reassembler specification
MaxArrivals == 2     \* frames the transport delivers in the session specification

-----------------------------------------------------------------------------
(* Python values: every value carries its type tag *)

IntV(n) == [t |-> "int", v |-> n]
StrV(s) == [t |-> "str", v |-> s]
ListV(s) == [t |-> "list", v |-> s]
DictV(d) == [t |-> "dict", v |-> d]
NoneV == [t |-> "none"]

\* bool(v)
Truthy(v) ==
    CASE v.t = "int" -> v.v # 0
      [] v.t = "str" -> v.v # ""
      [] v.t = "list" -> Len(v.v) > 0
      [] v.t = "dict" -> DOMAIN v.v # {}
      [] OTHER -> FALSE

\* dict.get(key, default) on a dict value
Get(data, key, default) ==
    IF key \in DOMAIN data.v THEN data.v[key] ELSE default

\* the order in which the keys of a record are written out
KeyOrder == <<"id", "message_id", "sequence", "timestamp", "index", "total",
              "total_fragments", "count", "message", "text", "content", "data",
              "a", "k">>

RECURSIVE JoinWith(_, _)
JoinWith(sep, texts) ==
    IF Len(texts) = 0 THEN ""
    ELSE IF Len(texts) = 1 THEN texts[1]
    ELSE texts[1] \o sep \o JoinWith(sep, Tail(texts))

\* text of a value: quote is the string delimiter, null the text of None
RECURSIVE Render(_, _, _)
Render(v, quote, null) ==
    CASE v.t = "int" -> ToString(v.v)
      [] v.t = "str" -> quote \o v.v \o quote
      [] v.t = "none" -> null
      [] v.t = "list" ->
            "[" \o JoinWith(", ", [i \in 1..Len(v.v) |-> Render(v.v[i], quote, null)]) \o "]"
      [] v.t = "dict" ->
            LET keys == SelectSeq(KeyOrder, LAMBDA k : k \in DOMAIN v.v)
            IN "{" \o JoinWith(", ", [i \in 1..Len(keys) |->
                        quote \o keys[i] \o quote \o ": " \o Render(v.v[keys[i]], quote, null)])
                \o "}"

\* json.dumps(v)
JsonDumps(v) == Render(v, "\"", "null")

\* str(v)
StrOf(v) == IF v.t = "str" THEN v.v ELSE Render(v, "'", "None")

-----------------------------------------------------------------------------
(* Frames: the text on the wire together with what json.loads makes of it *)

NotJson == [t |-> "notjson"]
Wire(v) == [wire |-> JsonDumps(v), val |-> v]
PlainFrame(s) == [wire |-> s, val |-> NotJson]

Groups == {"g1", "g2"}
TextOf(s) == <<"a", "b", "c", "d", "e", "f">>[s]

Frag(g, s, n) ==
    DictV([id |-> StrV(g), sequence |-> IntV(s), total |-> IntV(n), text |-> StrV(TextOf(s))])

\* the totals the fragments of a group declare: pairs everywhere, and the
\* longest sets on g1
TotalsOf(g) == IF g = "g1" THEN {2, MaxTotal} ELSE {2}

\* well-formed fragments: group g, sequence s of a declared total n
FragValues ==
    UNION {UNION {{Frag(g, s, n) : s \in 1..n} : n \in TotalsOf(g)} : g \in Groups}

NoTotalFrag == DictV([id |-> StrV("g1"), sequence |-> IntV(2), text |-> StrV("b")])
EmptyTextFrag == DictV([id |-> StrV("g1"), sequence |-> IntV(1), total |-> IntV(2), text |-> StrV("")])
HelloRecord == DictV([message |-> StrV("hello")])
TextContentRecord == DictV([text |-> StrV("t"), content |-> StrV("c")])
NumberMessageRecord == DictV([message |-> IntV(7)])
MessageTextRecord == DictV([message |-> StrV("m"), text |-> StrV("t")])
EmptyMessageRecord == DictV([message |-> StrV(""), content |-> StrV("c")])
EmptyFieldsRecord == DictV([message |-> StrV(""), text |-> StrV(""), content |-> StrV("")])
BareRecord == DictV([a |-> IntV(1)])
StringTotalFrag == DictV([id |-> StrV("g1"), total |-> StrV("2")])

-----------------------------------------------------------------------------
(* Results of a call: a returned value or a raised exception *)

Return(v) == [kind |-> "return", val |-> v]
Raise(exc) == [kind |-> "raise", exc |-> exc]

\* json.loads of a frame
JsonLoads(raw) ==
    IF raw.val = NotJson THEN Raise("JSONDecodeError") ELSE Return(raw.val)

\* s contains k as a substring
Contains(s, k) ==
    \E i \in 1..Len(s) : i + Len(k) - 1 <= Len(s) /\ SubSeq(s, i, i + Len(k) - 1) = k

\* `key in data`, for the types that support it
In(key, data) ==
    CASE data.t = "dict" -> key \in DOMAIN data.v
      [] data.t = "list" -> \E i \in 1..Len(data.v) : data.v[i] = StrV(key)
      [] data.t = "str" -> Contains(data.v, key)

fragment_keys == {"fragment", "sequence", "part", "chunk", "index"}
total_keys == {"total", "total_fragments", "total_parts", "count"}

\* utils.is_fragmented_message: TRUE / FALSE returned, or TypeError raised by
\* the first `key in data` when data is not a container
is_fragmented_message(data) ==
    IF data.t \notin {"dict", "list", "str"} THEN Raise("TypeError")
    ELSE LET has_fragment_indicator == \E key \in fragment_keys : In(key, data)
             has_total_indicator == \E key \in total_keys : In(key, data)
             has_timestamp == In("timestamp", data)
             has_id == In("id", data) \/ In("message_id", data)
         IN Return(has_fragment_indicator \/ has_total_indicator
                     \/ (has_timestamp /\ has_id))

\* the sort key of reconstruct_fragments
SortKey(x) == Get(x, "sequence", Get(x, "timestamp", Get(x, "index", IntV(0))))

\* insert x behind every element whose key is not larger (sorted() is stable)
RECURSIVE InsertSorted(_, _)
InsertSorted(x, s) ==
    IF s = <<>> THEN <<x>>
    ELSE IF SortKey(s[Len(s)]).v <= SortKey(x).v THEN Append(s, x)
    ELSE Append(InsertSorted(x, SubSeq(s, 1, Len(s) - 1)), s[Len(s)])

\* the fragments left in arrival order
Sorted_unsorted(s) == s

RECURSIVE Sorted(_)
Sorted(s) ==
    IF s = <<>> THEN <<>>
    ELSE InsertSorted(s[Len(s)], Sorted(SubSeq(s, 1, Len(s) - 1)))

\* no string form behind the content fields
FragmentText_nofallback(frag) ==
    LET c1 == Get(frag, "text", NoneV)
        c2 == Get(frag, "content", NoneV)
        c3 == Get(frag, "message", NoneV)
        c4 == Get(frag, "data", NoneV)
    IN IF Truthy(c1) THEN c1
       ELSE IF Truthy(c2) THEN c2
       ELSE IF Truthy(c3) THEN c3
       ELSE c4

\* the text taken from one fragment
FragmentText(frag) ==
    LET c1 == Get(frag, "text", NoneV)
        c2 == Get(frag, "content", NoneV)
        c3 == Get(frag, "message", NoneV)
        c4 == Get(frag, "data", NoneV)
    IN IF Truthy(c1) THEN c1
       ELSE IF Truthy(c2) THEN c2
       ELSE IF Truthy(c3) THEN c3
       ELSE IF Truthy(c4) THEN c4
       ELSE StrV(StrOf(frag))

\* WebSocketClient.reconstruct_fragments: the returned text (or None), and the
\* number of fragments it logs.  Comparing two sort keys raises TypeError
\* unless both are integers (the frames carry no other comparable keys).
reconstruct_fragments(frags) ==
    IF Len(frags) = 0 THEN [ret |-> Return(NoneV), logged |-> 0]
    ELSE IF Len(frags) >= 2 /\ \E i \in 1..Len(frags) : SortKey(frags[i]).t # "int"
    THEN [ret |-> Raise("TypeError"), logged |-> 0]
    ELSE LET sorted_fragments == Sorted(frags)
             found == [i \in 1..Len(frags) |-> FragmentText(sorted_fragments[i])]
             kept == SelectSeq(found, Truthy)
             texts == [i \in 1..Len(kept) |-> StrOf(kept[i])]
         IN IF Len(texts) > 0
            THEN [ret |-> Return(StrV(JoinWith(" ", texts))), logged |-> Len(frags)]
            ELSE [ret |-> Return(NoneV), logged |-> 0]

\* text looked up before message
RecordMessage_textfirst(data) ==
    LET m1 == Get(data, "text", NoneV)
        m2 == Get(data, "message", NoneV)
        m3 == Get(data, "content", NoneV)
    IN IF Truthy(m1) THEN m1
       ELSE IF Truthy(m2) THEN m2
       ELSE IF Truthy(m3) THEN m3
       ELSE StrV(StrOf(data))

\* the message a record that is not a fragment yields
RecordMessage(data) ==
    LET m1 == Get(data, "message", NoneV)
        m2 == Get(data, "text", NoneV)
        m3 == Get(data, "content", NoneV)
    IN IF Truthy(m1) THEN m1
       ELSE IF Truthy(m2) THEN m2
       ELSE IF Truthy(m3) THEN m3
       ELSE StrV(StrOf(data))

\* every fragment filed under the fallback key
FragmentId_shared(data) == StrV("default")

\* the group key of a fragment record (client.py line 102)
FragmentId(data) == Get(data, "id", Get(data, "message_id", StrV("default")))

\* a fragment without a total taken as a complete set of one
DeclaredTotal_one(data) ==
    Get(data, "total", Get(data, "total_fragments", Get(data, "count", IntV(1))))

\* the declared total of a fragment record
DeclaredTotal(data) ==
    Get(data, "total", Get(data, "total_fragments", Get(data, "count", IntV(0))))

\* the accumulators after `fragments[fragment_id].append(data)`
Accumulate(frs, fragment_id, data) ==
    [k \in DOMAIN frs \cup {fragment_id} |->
        IF k = fragment_id
        THEN Append(IF k \in DOMAIN frs THEN frs[k] ELSE <<>>, data)
        ELSE frs[k]]

\* the accumulator not cleared
ClearGroup_keeps(frs, fragment_id) == frs

\* the first fragment of the accumulator surviving the clear
ClearGroup_leaks(frs, fragment_id) == [frs EXCEPT ![fragment_id] = <<@[1]>>]

\* the accumulators after `fragments[fragment_id] = []`
ClearGroup(frs, fragment_id) == [frs EXCEPT ![fragment_id] = <<>>]

\* completion declared one fragment early
Complete_early(total, current_count) == total.v > 0 /\ current_count + 1 >= total.v

\* the completion test `total > 0 and current_count >= total`
Complete(total, current_count) == total.v > 0 /\ current_count >= total.v

\* the fragment branch of handle_message (client.py lines 102-121)
IngestFragment(data, frs, buf) ==
    IF data.t # "dict"
    THEN [fragments |-> frs, message_buffer |-> buf, ret |-> Raise("AttributeError"),
          logged |-> 0]
    ELSE LET fragment_id == FragmentId(data) IN
    IF fragment_id.t \in {"list", "dict"}
    THEN [fragments |-> frs, message_buffer |-> buf, ret |-> Raise("TypeError"),
          logged |-> 0]
    ELSE LET frs1 == Accumulate(frs, fragment_id, data)
             total == DeclaredTotal(data)
             current_count == Len(frs1[fragment_id])
         IN
    IF total.t # "int"
    THEN [fragments |-> frs1, message_buffer |-> buf, ret |-> Raise("TypeError"),
          logged |-> 0]
    ELSE IF Complete(total, current_count)
    THEN LET r == reconstruct_fragments(frs1[fragment_id]) IN
         IF r.ret.kind = "raise"
         THEN [fragments |-> frs1, message_buffer |-> buf, ret |-> r.ret, logged |-> 0]
         ELSE [fragments |-> ClearGroup(frs1, fragment_id), message_buffer |-> buf,
               ret |-> r.ret, logged |-> r.logged]
    ELSE [fragments |-> frs1, message_buffer |-> buf, ret |-> Return(NoneV), logged |-> 0]

\* the switch ignored
IsFragment_always(enable, data) == is_fragmented_message(data)

\* `self.enable_fragments and is_fragmented_message(data)`
IsFragment(enable, data) ==
    IF enable THEN is_fragmented_message(data) ELSE Return(FALSE)

\* the buffer holding the latest record only
Store_latest(buf, data) == <<data>>

\* the buffer after `self.message_buffer.append(data)`
Store(buf, data) == Append(buf, data)

\* WebSocketClient.handle_message: the client state it leaves, what it
\* returns or raises, and the fragment count logged by a reconstruction
handle_message(raw_message, frs, buf, enable) ==
    LET parsed == JsonLoads(raw_message) IN
    IF parsed.kind = "raise"
    THEN [fragments |-> frs, message_buffer |-> buf,
          ret |-> Return(StrV(raw_message.wire)), logged |-> 0]
    ELSE LET data == parsed.val
             buf1 == Store(buf, data)
             is_frag == IsFragment(enable, data)
         IN
    IF is_frag.kind = "raise"
    THEN [fragments |-> frs, message_buffer |-> buf1, ret |-> is_frag, logged |-> 0]
    ELSE IF is_frag.val THEN IngestFragment(data, frs, buf1)
    ELSE IF data.t = "dict"
    THEN [fragments |-> frs, message_buffer |-> buf1, ret |-> Return(RecordMessage(data)),
          logged |-> 0]
    ELSE [fragments |-> frs, message_buffer |-> buf1, ret |-> Return(StrV(StrOf(data))),
          logged |-> 0]

-----------------------------------------------------------------------------
(* Texts of the backend and of the operator: sequences of tokens separated
   by white space *)

OPEN == "{"
CLOSE == "}"
OPENK == "{\"k\":"          \* an object opened together with its first key
MEMBER == "\"a\": 1"        \* one member of an object
NUMBER == "5"
WORD == "hi"
FENCEJSON == "<fence>json"   \* the marker that opens a json code block
FENCE == "<fence>"           \* the marker that opens or closes a code block
QUIT == "quit"

IsOpen(tok) == tok \in {OPEN, OPENK}
IsBrace(tok) == IsOpen(tok) \/ tok = CLOSE

\* json.loads of a text
RECURSIVE ParseJson(_)
ParseJson(toks) ==
    IF toks = <<NUMBER>> THEN Return(IntV(5))
    ELSE IF Len(toks) >= 2 /\ toks[Len(toks)] = CLOSE
    THEN LET inner == SubSeq(toks, 2, Len(toks) - 1) IN
         IF toks[1] = OPEN
         THEN IF inner = <<>> THEN Return(DictV(<<>>))
              ELSE IF inner = <<MEMBER>> THEN Return(DictV([a |-> IntV(1)]))
              ELSE Raise("JSONDecodeError")
         ELSE IF toks[1] = OPENK
         THEN LET value == ParseJson(inner) IN
              IF value.kind = "return" THEN Return(DictV([k |-> value.val]))
              ELSE Raise("JSONDecodeError")
         ELSE Raise("JSONDecodeError")
    ELSE Raise("JSONDecodeError")

Least(S) == CHOOSE x \in S : \A y \in S : x <= y

\* where the match of \{[^{}]*\} that starts at the brace of toks[i] ends; 0: no match
FlatEnd(toks, i) ==
    LET braces == {j \in (i + 1)..Len(toks) : IsBrace(toks[j])} IN
    IF braces = {} THEN 0
    ELSE IF toks[Least(braces)] = CLOSE THEN Least(braces) ELSE 0

\* where the match of \{(?:[^{}]|(?:\{[^{}]*\}))*\} ends that has consumed
\* the tokens before k; 0: no match
RECURSIVE NestedEnd(_, _)
NestedEnd(toks, k) ==
    IF k > Len(toks) THEN 0
    ELSE IF toks[k] = CLOSE THEN k
    ELSE IF IsOpen(toks[k])
    THEN IF FlatEnd(toks, k) = 0 THEN 0 ELSE NestedEnd(toks, FlatEnd(toks, k) + 1)
    ELSE NestedEnd(toks, k + 1)

\* re.findall: the matches from token i on, left to right, not overlapping
RECURSIVE FindAll(_, _, _)
FindAll(toks, i, nested) ==
    IF i > Len(toks) THEN <<>>
    ELSE IF ~IsOpen(toks[i]) THEN FindAll(toks, i + 1, nested)
    ELSE LET end == IF nested THEN NestedEnd(toks, i + 1) ELSE FlatEnd(toks, i) IN
         IF end = 0 THEN FindAll(toks, i + 1, nested)
         ELSE <<SubSeq(toks, i, end)>> \o FindAll(toks, end + 1, nested)

\* the first match that json.loads turns into a dict, else None
RECURSIVE FirstDict(_)
FirstDict(matches) ==
    IF matches = <<>> THEN NoneV
    ELSE LET obj == ParseJson(matches[1]) IN
         IF obj.kind = "return" /\ obj.val.t = "dict" THEN obj.val
         ELSE FirstDict(Tail(matches))

\* utils.extract_json_from_text
extract_json_from_text(text) ==
    LET cleaned == SelectSeq(text, LAMBDA tok : tok \notin {FENCEJSON, FENCE})
        whole == ParseJson(cleaned)
    IN IF whole.kind = "return" THEN whole.val
       ELSE LET flat == FirstDict(FindAll(cleaned, 1, FALSE)) IN
            IF flat # NoneV THEN flat
            ELSE FirstDict(FindAll(cleaned, 1, TRUE))

\* what the backend does with one request
Timeout == [kind |-> "timeout"]
Unavailable == [kind |-> "error"]
Unreadable == [kind |-> "unexpected"]
Replies(text) == [kind |-> "text", text |-> text]

\* OllamaAgent.query_llm: the stripped response text, or None
query_llm(outcome) ==
    IF outcome.kind = "text" THEN ListV(outcome.text) ELSE NoneV

\* OllamaAgent.process_message
process_message(outcome) ==
    LET llm_response == query_llm(outcome) IN
    IF ~Truthy(llm_response) THEN NoneV
    ELSE LET response_data == extract_json_from_text(llm_response.v) IN
         IF ~Truthy(response_data) THEN NoneV ELSE response_data

-----------------------------------------------------------------------------
(* Frames offered to the client *)

PlainHello == PlainFrame("hello")
CompactList == [wire |-> "[1,2]", val |-> ListV(<<IntV(1), IntV(2)>>)]

\* frames of the reassembler specification
FragFrames == {Wire(v) : v \in FragValues}
HMFrames ==
    FragFrames \cup {Wire(NoTotalFrag), Wire(EmptyTextFrag), Wire(HelloRecord),
                     Wire(StringTotalFrag)}

\* frames of the record specification
RecordFrames ==
    {Wire(HelloRecord), Wire(TextContentRecord), Wire(MessageTextRecord),
     Wire(EmptyMessageRecord), Wire(EmptyFieldsRecord), Wire(BareRecord),
     Wire(NumberMessageRecord), Wire(Frag("g1", 1, 2))}

\* frames of the session specification
LoopFrames ==
    {Wire(Frag("g1", 1, 2)), Wire(Frag("g1", 2, 2)), Wire(Frag("g2", 1, 2)),
     Wire(HelloRecord), Wire(NumberMessageRecord), Wire(IntV(5)), CompactList,
     PlainHello}

\* a request that no timeout ends, to a backend that stays silent: no
\* outcome ever
BackendOutcomes_never == {}

\* what the backend answers in the session specification
BackendOutcomes ==
    {Timeout, Unavailable, Unreadable,
     Replies(<<>>), Replies(<<WORD>>), Replies(<<NUMBER>>),
     Replies(<<OPEN, MEMBER, CLOSE>>),
     Replies(<<WORD, FENCEJSON, OPEN, MEMBER, CLOSE, FENCE>>)}

\* what the operator types in manual mode
OperatorInputs == {<<QUIT>>, <<WORD>>, <<NUMBER>>, <<OPEN, MEMBER, CLOSE>>}

-----------------------------------------------------------------------------
(* Startup: Config, OllamaAgent.__init__ and test_connection *)

\* the settings the environment can give
Configs ==
    [WEBSOCKET_URI : {"", "ws://host"},
     SYSTEM_PROMPT : {"", "be brief"},
     SYSTEM_PROMPT_FILE : {"", "prompt.txt"},
     OLLAMA_MODEL : {"llama3.1:8b"},
     AUTO_MODE : BOOLEAN,
     ENABLE_FRAGMENT_RECONSTRUCTION : BOOLEAN]

\* Config.validate: (is_valid, error_msg)
validate(cfg) ==
    IF cfg.WEBSOCKET_URI = ""
    THEN <<FALSE, "WEBSOCKET_URI is required in .env file">>
    ELSE IF cfg.SYSTEM_PROMPT = "" /\ cfg.SYSTEM_PROMPT_FILE = ""
    THEN <<FALSE, "Either SYSTEM_PROMPT or SYSTEM_PROMPT_FILE must be set">>
    ELSE <<TRUE, "">>

\* what opening and reading the prompt file meets
FileMissing == [kind |-> "missing"]
FileUnreadable == [kind |-> "unreadable"]
FileHolds(text) == [kind |-> "text", text |-> text]
PromptFiles == {FileMissing, FileUnreadable, FileHolds(""), FileHolds(" "),
                FileHolds(" be kind ")}

\* str.strip() of a text whose only white space is the blank
RECURSIVE Strip(_)
Strip(text) ==
    IF Len(text) = 0 THEN text
    ELSE IF SubSeq(text, 1, 1) = " " THEN Strip(SubSeq(text, 2, Len(text)))
    ELSE IF SubSeq(text, Len(text), Len(text)) = " "
    THEN Strip(SubSeq(text, 1, Len(text) - 1))
    ELSE text

\* Config.get_system_prompt
get_system_prompt(cfg, file) ==
    IF cfg.SYSTEM_PROMPT # "" THEN Return(cfg.SYSTEM_PROMPT)
    ELSE IF cfg.SYSTEM_PROMPT_FILE # ""
    THEN IF file.kind = "text" THEN Return(Strip(file.text))
         ELSE Raise("ValueError")
    ELSE Return("")

\* get_system_prompt gets as far as opening the file
ReadsFile(cfg) == cfg.SYSTEM_PROMPT = "" /\ cfg.SYSTEM_PROMPT_FILE # ""

\* what the request for the model list meets
TagsUnreachable == [kind |-> "error"]
TagsStatus(code) == [kind |-> "status", status_code |-> code]
TagsModels(names) == [kind |-> "status", status_code |-> 200, names |-> names]
TagsOutcomes ==
    {TagsUnreachable, TagsStatus(500), TagsModels(<<>>),
     TagsModels(<<StrV("mistral:7b")>>),
     TagsModels(<<StrV("llama3.1:8b")>>),
     TagsModels(<<StrV("mistral:7b"), StrV("llama3.1:8b-instruct-q4")>>),
     TagsModels(<<NoneV>>)}

\* any(self.model in name for name in model_names): the first name that
\* holds the model decides, a name that is None before it raises TypeError
RECURSIVE AnyContains(_, _)
AnyContains(model, model_names) ==
    IF model_names = <<>> THEN Return(FALSE)
    ELSE IF Head(model_names).t # "str" THEN Raise("TypeError")
    ELSE IF Contains(Head(model_names).v, model) THEN Return(TRUE)
    ELSE AnyContains(model, Tail(model_names))

\* any available model counted as the configured one
test_connection_any(model, tags) ==
    Return(tags.kind = "status" /\ tags.status_code = 200)

\* OllamaAgent.test_connection
test_connection(model, tags) ==
    IF tags.kind = "error" THEN Return(FALSE)
    ELSE IF tags.status_code = 200
    THEN IF \E i \in 1..Len(tags.names) : tags.names[i] = StrV(model)
         THEN Return(TRUE)
         ELSE AnyContains(model, tags.names)
    ELSE Return(FALSE)

\* a configuration that passes startup: what the session specifications start from
RunningConfigs ==
    {cfg \in Configs : cfg.WEBSOCKET_URI # "" /\ cfg.SYSTEM_PROMPT # ""
                        /\ cfg.SYSTEM_PROMPT_FILE = ""}

NoStartup == [file |-> [kind |-> "none"], tags |-> [kind |-> "none"]]
StartupPassed == [file |-> [kind |-> "none"], tags |-> TagsModels(<<StrV("llama3.1:8b")>>)]

-----------------------------------------------------------------------------
(* Vocabulary of the properties: the group key, sequence key, declared total
   and content of a fragment record, as the design document defines them *)

GroupOf(data) ==
    IF "id" \in DOMAIN data.v THEN data.v["id"]
    ELSE IF "message_id" \in DOMAIN data.v THEN data.v["message_id"]
    ELSE StrV("default")

SeqOf(data) ==
    IF "sequence" \in DOMAIN data.v THEN data.v["sequence"]
    ELSE IF "timestamp" \in DOMAIN data.v THEN data.v["timestamp"]
    ELSE IF "index" \in DOMAIN data.v THEN data.v["index"]
    ELSE IntV(0)

TotalOf(data) ==
    IF "total" \in DOMAIN data.v THEN data.v["total"]
    ELSE IF "total_fragments" \in DOMAIN data.v THEN data.v["total_fragments"]
    ELSE IF "count" \in DOMAIN data.v THEN data.v["count"]
    ELSE IntV(0)

FragmentLike(data) ==
    /\ data.t = "dict"
    /\ \/ DOMAIN data.v \cap {"fragment", "sequence", "part", "chunk", "index"} # {}
       \/ DOMAIN data.v \cap {"total", "total_fragments", "total_parts", "count"} # {}
       \/ "timestamp" \in DOMAIN data.v /\ DOMAIN data.v \cap {"id", "message_id"} # {}

\* every group key a frame can carry
GroupKeys ==
    {GroupOf(f.val) : f \in {x \in HMFrames \cup LoopFrames \cup RecordFrames :
                                    x.val.t = "dict"}}

-----------------------------------------------------------------------------
(* Observations kept beside the client state *)

NoCall == [raw |-> PlainFrame(""), ret |-> Return(NoneV), logged |-> 0,
           pre |-> <<>>, precycle |-> [g \in GroupKeys |-> <<>>], n |-> 0]

NoStats == [seen |-> [g \in GroupKeys |-> <<>>],
            consumed |-> [g \in GroupKeys |-> 0],
            completions |-> [g \in GroupKeys |-> 0],
            arrived |-> <<>>, read |-> 0, typed |-> <<>>]

NoAgent == [started |-> 0, returned |-> 0, outcome |-> [kind |-> "none"],
            response |-> NoneV, sent |-> FALSE]

\* the frame is a fragment for the reassembler
IsFragmentFrame(raw) ==
    enable_fragments /\ raw.val # NotJson /\ FragmentLike(raw.val)

\* the call returned a message (not None, not an exception)
Emitted(ret) == ret.kind = "return" /\ ret.val # NoneV

Observe(raw, r) ==
    LET g == GroupOf(raw.val) IN
    /\ last' = [raw |-> raw, ret |-> r.ret, logged |-> r.logged, pre |-> fragments,
                precycle |-> cycle, n |-> last.n + 1]
    /\ cycle' = IF ~IsFragmentFrame(raw) THEN cycle
                ELSE IF Emitted(r.ret) THEN [cycle EXCEPT ![g] = <<>>]
                ELSE [cycle EXCEPT ![g] = Append(@, raw.val)]
    /\ stats' = IF ~IsFragmentFrame(raw) THEN [stats EXCEPT !.read = @ + 1]
                ELSE [stats EXCEPT !.read = @ + 1,
                                   !.seen[g] = Append(@, raw.val),
                                   !.consumed[g] = @ + r.logged,
                                   !.completions[g] = @ + IF Emitted(r.ret) THEN 1 ELSE 0]

-----------------------------------------------------------------------------
(* The client driven by direct handle_message calls *)

InitHM ==
    /\ config \in {cfg \in RunningConfigs :
                        cfg.AUTO_MODE /\ cfg.ENABLE_FRAGMENT_RECONSTRUCTION}
    /\ system_prompt = StrV(config.SYSTEM_PROMPT)
    /\ startup = StartupPassed
    /\ auto_mode = config.AUTO_MODE
    /\ enable_fragments = config.ENABLE_FRAGMENT_RECONSTRUCTION
    /\ fragments = <<>>
    /\ message_buffer = <<>>
    /\ pc = "recv"
    /\ closed_by = ""
    /\ inbox = <<>>
    /\ sent = <<>>
    /\ pending = NoneV
    /\ last = NoCall
    /\ cycle = [g \in GroupKeys |-> <<>>]
    /\ stats = NoStats
    /\ agent = NoAgent

\* one call of handle_message; an exception ends the caller
Call(raw) ==
    /\ pc = "recv"
    /\ last.n < MaxCalls
    /\ LET r == handle_message(raw, fragments, message_buffer, enable_fragments) IN
        /\ fragments' = r.fragments
        /\ message_buffer' = r.message_buffer
        /\ Observe(raw, r)
        /\ pc' = IF r.ret.kind = "raise" THEN "closed" ELSE "recv"
        /\ closed_by' = IF r.ret.kind = "raise" THEN r.ret.exc ELSE ""
    /\ UNCHANGED <<main_vars, auto_mode, enable_fragments, inbox, sent, pending, agent>>

NextHM == \E raw \in HMFrames : Call(raw)

SpecHM == InitHM /\ [][NextHM]_vars

-----------------------------------------------------------------------------
(* Properties of the reassembler *)

\* the content of a fragment: first non-empty of text, content, message,
\* data, else the string form of the record
ContentOf(data) ==
    LET nonempty(k) == k \in DOMAIN data.v /\ Truthy(data.v[k]) IN
    IF nonempty("text") THEN StrOf(data.v["text"])
    ELSE IF nonempty("content") THEN StrOf(data.v["content"])
    ELSE IF nonempty("message") THEN StrOf(data.v["message"])
    ELSE IF nonempty("data") THEN StrOf(data.v["data"])
    ELSE StrOf(data)

\* all records of set declare the total n
DeclareTotal(set, n) == \A i \in 1..Len(set) : TotalOf(set[i]) = IntV(n)

\* the sequence keys of set are integers, pairwise distinct
DistinctKeys(set) ==
    /\ \A i \in 1..Len(set) : SeqOf(set[i]).t = "int"
    /\ \A i, j \in 1..Len(set) : i # j => SeqOf(set[i]) # SeqOf(set[j])

\* a complete fragment set: N records declaring the total N, distinct keys
CompleteSet(set) ==
    Len(set) > 0 /\ DeclareTotal(set, Len(set)) /\ DistinctKeys(set)

\* a fragment set still short of its declared total
PartialSet(set) ==
    /\ Len(set) > 0
    /\ \E n \in 1..(MaxTotal + 1) : Len(set) < n /\ DeclareTotal(set, n)
    /\ DistinctKeys(set)

\* the record of set with exactly r - 1 smaller sequence keys
Ranked(set, r) ==
    CHOOSE i \in 1..Len(set) :
        Cardinality({j \in 1..Len(set) : SeqOf(set[j]).v < SeqOf(set[i]).v}) = r - 1

\* the contents of a complete set in ascending sequence-key order
ExpectedMessage(set) ==
    JoinWith(" ", [r \in 1..Len(set) |-> ContentOf(set[Ranked(set, r)])])

LastGroup == GroupOf(last.raw.val)
LastSet == Append(last.precycle[LastGroup], last.raw.val)
LastWasFragment == last.n > 0 /\ IsFragmentFrame(last.raw)

\* C1: the fragment that completes a set (N fragments of one group since the
\* group's last emission, each declaring total N, distinct sequence keys)
\* makes handle_message return the contents joined by single spaces in
\* ascending sequence-key order, whatever the arrival order; a fragment
\* that leaves such a set short of N returns no message.
C1_CompleteSetReconstructed ==
    LastWasFragment =>
        /\ CompleteSet(LastSet) => last.ret = Return(StrV(ExpectedMessage(LastSet)))
        /\ PartialSet(LastSet) => last.ret = Return(NoneV)

C1_Witness ==
    /\ LastWasFragment
    /\ CompleteSet(LastSet)
    /\ Len(LastSet) = MaxTotal
    /\ SeqOf(LastSet[1]) = IntV(1)
    /\ SeqOf(LastSet[2]) = IntV(3)
    /\ SeqOf(LastSet[MaxTotal]) = IntV(2)
    /\ Emitted(last.ret)
    /\ MaxTotal = 3 => last.ret = Return(StrV("a b c"))

\* C2: while fewer fragments than the declared total have been ingested for
\* a group, no message has been returned for the group and its accumulator
\* holds exactly the fragments ingested so far.
C2_WaitingGroupAccumulates ==
    \A g \in GroupKeys :
        LET seen == stats.seen[g] IN
        (Len(seen) > 0 /\ \E n \in 1..(MaxTotal + 1) : Len(seen) < n /\ DeclareTotal(seen, n))
            => /\ stats.completions[g] = 0
               /\ g \in DOMAIN fragments
               /\ Len(fragments[g]) = Len(seen)
               /\ (LastWasFragment /\ LastGroup = g => last.ret = Return(NoneV))

C2_Witness ==
    /\ LastWasFragment
    /\ Len(stats.seen[StrV("g1")]) = 2
    /\ DeclareTotal(stats.seen[StrV("g1")], MaxTotal)
    /\ Len(stats.seen[StrV("g2")]) = 1
    /\ last.ret = Return(NoneV)

\* the fragments a group holds
Held(g) == IF g \in DOMAIN fragments THEN Len(fragments[g]) ELSE 0

\* C3: the accumulator of a group is empty in the state a reconstruction for
\* it is returned, and the fragments used by all reconstructions of a group
\* plus the fragments it still holds never exceed the fragments ingested:
\* no fragment goes into two messages.
C3_ClearedWithReconstruction ==
    /\ (LastWasFragment /\ Emitted(last.ret)) => fragments[LastGroup] = <<>>
    /\ \A g \in GroupKeys : stats.consumed[g] + Held(g) <= Len(stats.seen[g])

C3_Witness ==
    /\ LastWasFragment
    /\ Emitted(last.ret)
    /\ stats.completions[LastGroup] = 2
    /\ stats.consumed[LastGroup] = 4

\* the frames of one group fed to a client that has seen nothing else
RECURSIVE Alone(_)
Alone(set) ==
    IF set = <<>> THEN [fragments |-> <<>>, message_buffer |-> <<>>,
                        ret |-> Return(NoneV), logged |-> 0]
    ELSE LET before == Alone(SubSeq(set, 1, Len(set) - 1))
         IN handle_message(Wire(set[Len(set)]), before.fragments,
                           before.message_buffer, TRUE)

\* C4: a fragment for one group leaves the accumulator of every other group
\* as it was, and what handle_message returns for it is what it returns
\* when the fragments of its group are ingested alone.
C4_GroupsIsolated ==
    LastWasFragment =>
        /\ \A g \in (DOMAIN fragments \cup DOMAIN last.pre) \ {LastGroup} :
                g \in DOMAIN fragments /\ g \in DOMAIN last.pre
                    /\ fragments[g] = last.pre[g]
        /\ last.ret = Alone(LastSet).ret

C4_Witness ==
    /\ LastWasFragment
    /\ LastGroup = StrV("g2")
    /\ last.ret = Return(StrV("a b"))
    /\ Len(message_buffer) = 4
    /\ GroupOf(message_buffer[1]) = StrV("g1")
    /\ GroupOf(message_buffer[2]) = StrV("g2")
    /\ GroupOf(message_buffer[3]) = StrV("g1")
    /\ stats.completions[StrV("g1")] = 1

\* C5: once a group has completed, the fragments that follow on the same
\* key are handled as on a fresh key: the call returns, logs and leaves in
\* the accumulator what it would with only the fragments received since the
\* completion.
C5_FreshAfterCompletion ==
    (LastWasFragment /\ stats.completions[LastGroup] >= 1
        /\ (Emitted(last.ret) => stats.completions[LastGroup] >= 2))
        => /\ last.ret = Alone(LastSet).ret
           /\ last.logged = Alone(LastSet).logged
           /\ fragments[LastGroup] = Alone(LastSet).fragments[LastGroup]
           /\ Emitted(last.ret) => last.logged = Len(LastSet)

C5_Witness ==
    /\ LastWasFragment
    /\ stats.completions[LastGroup] = 2
    /\ last.ret = Return(StrV("a b"))
    /\ last.logged = 2
    /\ Len(stats.seen[LastGroup]) = 4

C5_WitnessWaiting ==
    /\ LastWasFragment
    /\ stats.completions[LastGroup] = 1
    /\ last.ret = Return(NoneV)
    /\ Len(fragments[LastGroup]) = 1
    /\ Len(stats.seen[LastGroup]) = 3

-----------------------------------------------------------------------------
(* The session loop, WebSocketClient.run *)

Init ==
    /\ config \in RunningConfigs
    /\ system_prompt = StrV(config.SYSTEM_PROMPT)
    /\ startup = StartupPassed
    /\ auto_mode = config.AUTO_MODE
    /\ enable_fragments = config.ENABLE_FRAGMENT_RECONSTRUCTION
    /\ fragments = <<>>
    /\ message_buffer = <<>>
    /\ pc = "connecting"
    /\ closed_by = ""
    /\ inbox = <<>>
    /\ sent = <<>>
    /\ pending = NoneV
    /\ last = NoCall
    /\ cycle = [g \in GroupKeys |-> <<>>]
    /\ stats = NoStats
    /\ agent = NoAgent

\* websockets.connect succeeds
Connect ==
    /\ pc = "connecting"
    /\ pc' = "recv"
    /\ UNCHANGED <<main_vars, auto_mode, enable_fragments, fragments, message_buffer, closed_by,
                   inbox, sent, pending, last, cycle, stats, agent>>

\* websockets.connect raises; run logs and re-raises
ConnectFails ==
    /\ pc = "connecting"
    /\ pc' = "closed"
    /\ closed_by' = "transport_error"
    /\ UNCHANGED <<main_vars, auto_mode, enable_fragments, fragments, message_buffer,
                   inbox, sent, pending, last, cycle, stats, agent>>

\* the transport delivers one more frame
Arrive(raw) ==
    /\ pc \in {"recv", "dispatch", "manual"}
    /\ Len(stats.arrived) < MaxArrivals
    /\ inbox' = Append(inbox, raw)
    /\ stats' = [stats EXCEPT !.arrived = Append(@, raw)]
    /\ UNCHANGED <<main_vars, auto_mode, enable_fragments, fragments, message_buffer, pc, closed_by,
                   sent, pending, last, cycle, agent>>

\* frames still read once run has ended
CanRead_closed == pc \in {"recv", "closed"}

\* frames read while the responder is still out
CanRead_concurrent == pc \in {"recv", "dispatch"}

\* run is at `async for raw_message in websocket`
CanRead == pc = "recv"

\* the frame the iteration yields
NextFrame(queue) == Head(queue)

\* processed_message[:200]
Sliceable(v) == v.t \in {"str", "list"}

\* a fragment still waiting answered like a message
Waiting_never(processed_message) == FALSE

\* `if processed_message is None: continue`
Waiting(processed_message) == processed_message = NoneV

\* one iteration of the loop up to the call of the responder or the prompt
\* of the operator (client.py lines 153-166 and 172-181)
ReadFrame ==
    /\ CanRead
    /\ inbox # <<>>
    /\ LET raw == NextFrame(inbox)
           r == handle_message(raw, fragments, message_buffer, enable_fragments)
           failed == r.ret.kind = "raise"
                        \/ (r.ret.val # NoneV /\ ~Sliceable(r.ret.val))
           waiting == ~failed /\ Waiting(r.ret.val)
       IN
        /\ inbox' = Tail(inbox)
        /\ fragments' = r.fragments
        /\ message_buffer' = r.message_buffer
        /\ Observe(raw, r)
        /\ pc' = IF failed THEN "closed"
                 ELSE IF waiting THEN "recv"
                 ELSE IF auto_mode THEN "dispatch" ELSE "manual"
        /\ closed_by' = IF r.ret.kind = "raise" THEN r.ret.exc
                        ELSE IF failed THEN "TypeError" ELSE ""
        /\ pending' = IF failed \/ waiting THEN pending ELSE r.ret.val
        /\ agent' = IF ~failed /\ ~waiting /\ auto_mode
                    THEN [agent EXCEPT !.started = @ + 1] ELSE agent
    /\ UNCHANGED <<main_vars, auto_mode, enable_fragments, sent>>

\* whatever the responder returned is sent
ShouldSend_always(response_data) == TRUE

\* `if response_data:` in run
ShouldSend(response_data) == Truthy(response_data)

\* the accumulators reset on the way out of the responder
AfterDispatch_reset(frs) == [k \in DOMAIN frs |-> <<>>]

\* the accumulators when the responder has returned
AfterDispatch(frs) == frs

\* the responder returns and run sends the reply or logs the failure
\* (client.py lines 166-171); sending raises when the connection is gone
Respond(outcome, connected) ==
    /\ pc = "dispatch"
    /\ LET response_data == process_message(outcome) IN
        /\ ShouldSend(response_data) \/ connected
        /\ agent' = [agent EXCEPT !.returned = @ + 1, !.outcome = outcome,
                                  !.response = response_data,
                                  !.sent = ShouldSend(response_data) /\ connected]
        /\ sent' = IF ShouldSend(response_data) /\ connected
                   THEN Append(sent, JsonDumps(response_data)) ELSE sent
        /\ pc' = IF ShouldSend(response_data) /\ ~connected THEN "closed" ELSE "recv"
        /\ closed_by' = IF ShouldSend(response_data) /\ ~connected
                        THEN "transport_error" ELSE ""
    /\ fragments' = AfterDispatch(fragments)
    /\ UNCHANGED <<main_vars, auto_mode, enable_fragments, message_buffer, inbox, pending,
                   last, cycle, stats>>

\* manual mode: the operator answers the prompt (client.py lines 181-189)
OperatorInput(user_input, connected) ==
    /\ pc = "manual"
    /\ LET quit == user_input = <<QUIT>>
           parsed == ParseJson(user_input)
           sending == ~quit /\ parsed.kind = "return"
       IN
        /\ sending \/ connected
        /\ sent' = IF sending /\ connected THEN Append(sent, JsonDumps(parsed.val)) ELSE sent
        /\ pc' = IF quit \/ (sending /\ ~connected) THEN "closed" ELSE "recv"
        /\ closed_by' = IF quit THEN "operator_quit"
                        ELSE IF sending /\ ~connected THEN "transport_error" ELSE ""
    /\ stats' = [stats EXCEPT !.typed = user_input]
    /\ UNCHANGED <<main_vars, auto_mode, enable_fragments, fragments, message_buffer, inbox,
                   pending, last, cycle, agent>>

\* the connection ends while run waits for a frame: the iteration stops
\* (closed normally) or raises (closed with an error)
TransportCloses(how) ==
    /\ pc = "recv"
    /\ inbox = <<>>
    /\ pc' = "closed"
    /\ closed_by' = how
    /\ UNCHANGED <<main_vars, auto_mode, enable_fragments, fragments, message_buffer, inbox,
                   sent, pending, last, cycle, stats, agent>>

Next ==
    \/ Connect
    \/ ConnectFails
    \/ \E raw \in LoopFrames : Arrive(raw)
    \/ ReadFrame
    \/ \E outcome \in BackendOutcomes, connected \in BOOLEAN : Respond(outcome, connected)
    \/ \E user_input \in OperatorInputs, connected \in BOOLEAN :
            OperatorInput(user_input, connected)
    \/ \E how \in {"transport_closed", "transport_error"} : TransportCloses(how)

Spec == Init /\ [][Next]_vars

-----------------------------------------------------------------------------
(* Properties of the session loop *)

\* the step is the return of a responder call that failed
ResponderFailed == agent'.returned = agent.returned + 1 /\ agent'.response = NoneV

\* C6: in autonomous mode, when the responder fails (timeout, backend
\* unavailable, no reply extracted) nothing is sent for the message, the
\* connection stays open and run is back at reading the next frame.
C6_FailureKeepsSession ==
    [][ResponderFailed => sent' = sent /\ pc' = "recv" /\ closed_by' = ""]_vars

C6_Witness ==
    /\ auto_mode
    /\ agent.returned = 1
    /\ agent.outcome = Timeout
    /\ agent.response = NoneV
    /\ sent = <<>>
    /\ stats.read = 2
    /\ pc = "dispatch"

\* C7: run ends only by the transport closing or failing, or by the
\* operator's exit command in manual mode; never by what a frame contains.
C7_ClosedOnlyByTransportOrOperator ==
    pc = "closed" =>
        \/ closed_by \in {"transport_closed", "transport_error"}
        \/ closed_by = "operator_quit" /\ ~auto_mode

\* the backend answered with a text that holds no brace
NoBraceReply ==
    /\ agent.outcome.kind = "text"
    /\ \A i \in 1..Len(agent.outcome.text) : ~IsBrace(agent.outcome.text[i])

\* C8: the responder succeeds only with a record; a backend text without a
\* brace-delimited substring makes it fail and nothing is sent.
C8_ReplyIsRecord ==
    agent.returned > 0 =>
        /\ agent.response # NoneV => agent.response.t = "dict"
        /\ NoBraceReply => agent.response = NoneV /\ ~agent.sent

\* C9: a responder call that fails leaves every accumulator as it was when
\* the responder was called.
C9_FailureKeepsAccumulators ==
    [][ResponderFailed => fragments' = fragments]_vars

C9_Witness ==
    /\ agent.returned = 1
    /\ agent.outcome = Timeout
    /\ agent.response = NoneV
    /\ pc = "recv"
    /\ StrV("g1") \in DOMAIN fragments
    /\ fragments[StrV("g1")] = <<Frag("g1", 1, 2)>>

\* responder calls that have not returned
Outstanding == agent.started - agent.returned

\* C10: frames are read in arrival order, one at a time: the n-th frame
\* handled is the n-th that arrived, at most one responder call is
\* outstanding, and no frame is read while a call is outstanding or the
\* message of the previous frame is still being answered.
C10_OneFrameAtATime ==
    /\ [](Outstanding \in {0, 1})
    /\ [](stats.read > 0 => last.raw = stats.arrived[stats.read])
    /\ [](inbox = SubSeq(stats.arrived, stats.read + 1, Len(stats.arrived)))
    /\ [][(Outstanding = 1 \/ pc \in {"dispatch", "manual"})
            => stats'.read = stats.read]_vars

C10_Witness ==
    /\ pc = "dispatch"
    /\ Outstanding = 1
    /\ stats.read = 1
    /\ Len(stats.arrived) = 2
    /\ inbox = <<stats.arrived[2]>>

-----------------------------------------------------------------------------
(* The declared total that decides completion *)

\* the record states a total
StatesTotal(data) == DOMAIN data.v \cap {"total", "total_fragments", "count"} # {}

\* the accumulator of the latest fragment's group once the fragment is in it
LastAccumulated ==
    Append(IF LastGroup \in DOMAIN last.pre THEN last.pre[LastGroup] ELSE <<>>,
           last.raw.val)

\* the fragments of set that state a total
Stating(set) == {i \in 1..Len(set) : StatesTotal(set[i])}

\* the total stated by the most recent fragment of set that states one
LatestStatedTotal(set) ==
    TotalOf(set[CHOOSE i \in Stating(set) : \A j \in Stating(set) : j <= i])

\* C11 as claimed: the group completes as soon as its count reaches the
\* total stated by the most recent fragment of the group that states one,
\* also when the fragment that brings the count up states no total itself.
C11_LatestStatedTotalDecides ==
    (LastWasFragment /\ Stating(LastAccumulated) # {}
        /\ LatestStatedTotal(LastAccumulated).t = "int"
        /\ LatestStatedTotal(LastAccumulated).v > 0
        /\ Len(LastAccumulated) >= LatestStatedTotal(LastAccumulated).v)
        => Emitted(last.ret)

\* C11 as amended: completion is decided against the total the fragment
\* just ingested states itself (0 when it states none): the group completes
\* exactly when that total is a number above 0 and the count has reached
\* it; a fragment that states no total is added to its group and never
\* completes it, whatever the earlier fragments stated.
C11_OwnTotalDecides ==
    LastWasFragment =>
        /\ Emitted(last.ret) <=>
                /\ TotalOf(last.raw.val).t = "int"
                /\ TotalOf(last.raw.val).v > 0
                /\ Len(LastAccumulated) >= TotalOf(last.raw.val).v
        /\ ~StatesTotal(last.raw.val) =>
                last.ret = Return(NoneV) /\ fragments[LastGroup] = LastAccumulated

C11_Witness ==
    /\ LastWasFragment
    /\ last.raw = Wire(NoTotalFrag)
    /\ LastAccumulated = <<Frag("g1", 1, 2), NoTotalFrag>>
    /\ last.ret = Return(NoneV)
    /\ Len(fragments[LastGroup]) = 2

\* a later fragment stating a smaller total completes a group that an
\* earlier fragment declared longer
C11_WitnessLastWriter ==
    /\ LastWasFragment
    /\ LastAccumulated = <<Frag("g1", 1, MaxTotal), Frag("g1", 2, 2)>>
    /\ Emitted(last.ret)

-----------------------------------------------------------------------------
(* What handling one frame changes in the client *)

\* the step is one call of handle_message
HandledFrame == stats'.read = stats.read + 1

\* the frame the step handles
Handled == last'.raw

\* the classes of the design document
IsPlainText(raw) == raw.val = NotJson \/ raw.val.t # "dict"
IsStructuredNonFragment(raw) == ~IsPlainText(raw) /\ ~IsFragmentFrame(raw)

\* the accumulator of group g in frs, empty when there is none
AccumulatorOf(frs, g) == IF g \in DOMAIN frs THEN frs[g] ELSE <<>>

\* the step leaves the accumulator of every group but g as it was
OnlyGroupChanges(g) ==
    \A h \in (DOMAIN fragments \cup DOMAIN fragments') \ {g} :
        AccumulatorOf(fragments', h) = AccumulatorOf(fragments, h)

\* C12 as claimed: handling a plain-text or structured non-fragment frame
\* leaves all client state unchanged, and handling a fragment changes
\* nothing but the accumulator of the fragment's own group.
C12_HandlingChangesOnlyOwnGroup ==
    [][HandledFrame =>
        /\ auto_mode' = auto_mode /\ enable_fragments' = enable_fragments
        /\ message_buffer' = message_buffer
        /\ IF IsFragmentFrame(Handled) THEN OnlyGroupChanges(GroupOf(Handled.val))
           ELSE fragments' = fragments]_vars

\* C12 as amended: handling a frame changes nothing in the client but
\* message_buffer, which gains the parsed value of every frame that parses
\* as JSON (and only that), and, for a fragment, the accumulator of the
\* fragment's own group; a frame that is not JSON changes nothing.
C12_HandlingChangesBufferAndOwnGroup ==
    [][HandledFrame =>
        /\ auto_mode' = auto_mode /\ enable_fragments' = enable_fragments
        /\ message_buffer' = IF Handled.val = NotJson THEN message_buffer
                             ELSE Append(message_buffer, Handled.val)
        /\ IF IsFragmentFrame(Handled) THEN OnlyGroupChanges(GroupOf(Handled.val))
           ELSE fragments' = fragments]_vars

C12_Witness ==
    /\ stats.read = 2
    /\ enable_fragments
    /\ stats.arrived = <<Wire(Frag("g1", 1, 2)), Wire(Frag("g2", 1, 2))>>
    /\ message_buffer = <<Frag("g1", 1, 2), Frag("g2", 1, 2)>>
    /\ fragments[StrV("g1")] = <<Frag("g1", 1, 2)>>
    /\ fragments[StrV("g2")] = <<Frag("g2", 1, 2)>>

\* a structured non-fragment frame and a frame that is not JSON
C12_WitnessNonFragment ==
    /\ stats.read = 2
    /\ stats.arrived = <<Wire(HelloRecord), PlainHello>>
    /\ message_buffer = <<HelloRecord>>
    /\ fragments = <<>>

-----------------------------------------------------------------------------
(* Frames that are not records *)

\* C13: a frame that does not parse as a record (not JSON at all, or a JSON
\* scalar, string or array) is handled as plain text: handle_message returns
\* the raw frame text unchanged and that text is what is dispatched.
C13_NonRecordDispatchedRaw ==
    (stats.read > 0 /\ IsPlainText(last.raw)) =>
        /\ last.ret = Return(StrV(last.raw.wire))
        /\ pending = StrV(last.raw.wire)

-----------------------------------------------------------------------------
(* Reconstruction switched off *)

\* the step handles a record while reconstruction is switched off
HandledRecordSwitchedOff ==
    HandledFrame /\ ~enable_fragments /\ ~IsPlainText(Handled)

\* C14: with reconstruction switched off every record is handled as a
\* non-fragment: handle_message returns a message for it in that very call
\* (never the "still waiting" None), run goes on to dispatch that message,
\* and no accumulator is ever created or changed.
C14_SwitchedOffNeverAccumulates ==
    /\ [](~enable_fragments => fragments = <<>>)
    /\ [][HandledRecordSwitchedOff =>
            /\ last'.ret.kind = "return"
            /\ last'.ret.val # NoneV
            /\ fragments' = fragments
            /\ Sliceable(last'.ret.val) =>
                    pc' \in {"dispatch", "manual"} /\ pending' = last'.ret.val]_vars

C14_Witness ==
    /\ ~enable_fragments
    /\ stats.read = 2
    /\ stats.arrived = <<Wire(Frag("g1", 1, 2)), Wire(Frag("g1", 2, 2))>>
    /\ last.ret = Return(StrV("b"))
    /\ pending = StrV("b")
    /\ pc = "dispatch"
    /\ fragments = <<>>

-----------------------------------------------------------------------------
(* Startup, main(): validation, the agent, the readiness check, then run *)

InitMain ==
    /\ config \in Configs
    /\ system_prompt = NoneV
    /\ startup = NoStartup
    /\ auto_mode = FALSE
    /\ enable_fragments = FALSE
    /\ fragments = <<>>
    /\ message_buffer = <<>>
    /\ pc = "validate"
    /\ closed_by = ""
    /\ inbox = <<>>
    /\ sent = <<>>
    /\ pending = NoneV
    /\ last = NoCall
    /\ cycle = [g \in GroupKeys |-> <<>>]
    /\ stats = NoStats
    /\ agent = NoAgent

\* main.py lines 28-33: Config.validate, sys.exit(1) when it fails
Validate ==
    /\ pc = "validate"
    /\ LET is_valid == validate(config)[1] IN
        /\ pc' = IF is_valid THEN "init_agent" ELSE "exited"
        /\ closed_by' = IF is_valid THEN "" ELSE "ConfigInvalid"
    /\ UNCHANGED <<main_vars, auto_mode, enable_fragments, fragments, message_buffer,
                   inbox, sent, pending, last, cycle, stats, agent>>

\* main.py lines 48-53: OllamaAgent(logger), which resolves the system
\* prompt; sys.exit(1) when that raises
InitAgent(file) ==
    /\ pc = "init_agent"
    /\ LET prompt == get_system_prompt(config, file) IN
        /\ system_prompt' = IF prompt.kind = "return" THEN StrV(prompt.val)
                             ELSE system_prompt
        /\ pc' = IF prompt.kind = "return" THEN "test_connection" ELSE "exited"
        /\ closed_by' = IF prompt.kind = "return" THEN "" ELSE "AgentInitFailed"
    /\ startup' = IF ReadsFile(config) THEN [startup EXCEPT !.file = file] ELSE startup
    /\ UNCHANGED <<config, auto_mode, enable_fragments, fragments, message_buffer,
                   inbox, sent, pending, last, cycle, stats, agent>>

\* main.py lines 55-73: the readiness check; when it passes the client is
\* constructed from Config and run is entered; when it fails sys.exit(1);
\* an exception it lets through ends the process as well
TestConnection(tags) ==
    /\ pc = "test_connection"
    /\ LET ready == test_connection(config.OLLAMA_MODEL, tags)
           passed == ready.kind = "return" /\ ready.val
       IN
        /\ pc' = IF passed THEN "connecting" ELSE "exited"
        /\ closed_by' = IF passed THEN ""
                         ELSE IF ready.kind = "raise" THEN ready.exc
                         ELSE "BackendNotReady"
        /\ auto_mode' = IF passed THEN config.AUTO_MODE ELSE auto_mode
        /\ enable_fragments' = IF passed THEN config.ENABLE_FRAGMENT_RECONSTRUCTION
                                ELSE enable_fragments
    /\ startup' = [startup EXCEPT !.tags = tags]
    /\ fragments' = <<>>
    /\ message_buffer' = <<>>
    /\ UNCHANGED <<config, system_prompt, inbox, sent, pending, last, cycle, stats, agent>>

\* frames of the startup and of the progress specification
MainFrames == {Wire(HelloRecord), Wire(Frag("g1", 1, 2))}

NextMain ==
    \/ Validate
    \/ \E file \in PromptFiles : InitAgent(file)
    \/ \E tags \in TagsOutcomes : TestConnection(tags)
    \/ Connect
    \/ ConnectFails
    \/ \E raw \in MainFrames : Arrive(raw)
    \/ ReadFrame
    \/ \E outcome \in BackendOutcomes, connected \in BOOLEAN : Respond(outcome, connected)
    \/ \E user_input \in OperatorInputs, connected \in BOOLEAN :
            OperatorInput(user_input, connected)
    \/ \E how \in {"transport_closed", "transport_error"} : TransportCloses(how)

SpecMain == InitMain /\ [][NextMain]_vars

\* run has been entered
InSession == pc \in {"connecting", "recv", "dispatch", "manual", "closed"}

\* C15: startup fails before run begins connecting whenever the endpoint
\* address is empty or the system prompt resolves to empty content: run is
\* never entered with an empty endpoint address or an empty system prompt.
C15_NoSessionWithoutAddressAndPrompt ==
    InSession =>
        /\ config.WEBSOCKET_URI # ""
        /\ system_prompt # NoneV
        /\ system_prompt # StrV("")

\* the backend answered the readiness check with a list that names the
\* configured model, exactly or inside a longer name
ModelListed(model, tags) ==
    /\ tags.kind = "status"
    /\ tags.status_code = 200
    /\ \E i \in 1..Len(tags.names) :
            /\ tags.names[i].t = "str"
            /\ \E from \in 1..Len(tags.names[i].v), to \in 1..Len(tags.names[i].v) :
                    SubSeq(tags.names[i].v, from, to) = model

\* nothing has gone over the transport
NeverOpened == inbox = <<>> /\ stats.arrived = <<>> /\ stats.read = 0 /\ sent = <<>>

\* C16: run starts connecting only after the readiness check has found the
\* configured model among the backend's models (exactly or as a substring
\* of a listed name); when that test fails or the backend cannot be reached
\* the process exits and the transport connection is never opened.
C16_SessionOnlyAfterReadiness ==
    /\ [](InSession => ModelListed(config.OLLAMA_MODEL, startup.tags))
    /\ [](pc = "exited" => NeverOpened)
    /\ [][(pc = "test_connection" /\ ~ModelListed(config.OLLAMA_MODEL, startup'.tags))
            => pc' = "exited"]_vars
    /\ [][pc = "exited" => pc' = "exited"]_vars

C16_Witness ==
    /\ pc = "recv"
    /\ stats.read = 1
    /\ startup.tags = TagsModels(<<StrV("mistral:7b"), StrV("llama3.1:8b-instruct-q4")>>)

\* readiness refused: the model is not among those listed
C16_WitnessExit ==
    /\ pc = "exited"
    /\ closed_by = "BackendNotReady"
    /\ startup.tags = TagsModels(<<StrV("mistral:7b")>>)

-----------------------------------------------------------------------------
(* The end of the connection *)

\* every fragment ingested for g went into a returned message or is still
\* in the accumulator of g
Accounted(g) == stats.consumed[g] + Held(g) = Len(stats.seen[g])

\* C17 as claimed: once run has closed no accumulator holds a fragment, and
\* nothing is emitted or sent for the groups that were incomplete.
C17_ClosedDiscardsAccumulators ==
    /\ [](pc = "closed" => \A g \in DOMAIN fragments : fragments[g] = <<>>)
    /\ [][pc = "closed" => sent' = sent /\ last' = last]_vars

\* C17 as amended: once run has closed it takes no further step: no frame
\* is handled, no message is emitted and no reply is sent, so the fragments
\* of a group incomplete at the close are never emitted or answered.  run
\* does not clear the accumulators: they keep the fragments of the
\* incomplete groups, unchanged, for as long as the client object lives.
C17_ClosedEmitsNothingMore ==
    /\ [](pc = "closed" => \A g \in GroupKeys : Accounted(g))
    /\ [][pc = "closed" =>
            /\ pc' = "closed"
            /\ sent' = sent /\ last' = last /\ agent' = agent
            /\ fragments' = fragments]_vars

C17_Witness ==
    /\ pc = "closed"
    /\ closed_by = "transport_closed"
    /\ enable_fragments
    /\ stats.read = 2
    /\ Len(sent) = 1
    /\ StrV("g1") \in DOMAIN fragments
    /\ fragments[StrV("g1")] = <<Frag("g1", 1, 2)>>

-----------------------------------------------------------------------------
(* Manual mode *)

\* the step is the operator answering the prompt
OperatorAnswered == pc = "manual" /\ pc' # "manual"

\* the input is the text of a record
TypedRecord(user_input) ==
    /\ Len(user_input) >= 2
    /\ IsOpen(user_input[1])
    /\ user_input[Len(user_input)] = CLOSE
    /\ ParseJson(user_input).kind = "return"

\* C18: in manual mode input that is not a record is reported, nothing is
\* sent and run goes on to the next frame; input that is a record is sent;
\* the exit command ends run and nothing is sent.
C18_OnlyRecordsSentManually ==
    [][OperatorAnswered =>
        LET user_input == stats'.typed IN
        IF user_input = <<QUIT>>
        THEN sent' = sent /\ pc' = "closed" /\ closed_by' = "operator_quit"
        ELSE IF TypedRecord(user_input)
        THEN \/ sent' = Append(sent, JsonDumps(ParseJson(user_input).val)) /\ pc' = "recv"
             \/ sent' = sent /\ pc' = "closed" /\ closed_by' = "transport_error"
        ELSE sent' = sent /\ pc' = "recv"]_vars

-----------------------------------------------------------------------------
(* Records that are not fragments *)

\* the client handling records, with reconstruction switched on or off
InitRecords ==
    /\ config \in {cfg \in RunningConfigs : cfg.AUTO_MODE}
    /\ system_prompt = StrV(config.SYSTEM_PROMPT)
    /\ startup = StartupPassed
    /\ auto_mode = config.AUTO_MODE
    /\ enable_fragments = config.ENABLE_FRAGMENT_RECONSTRUCTION
    /\ fragments = <<>>
    /\ message_buffer = <<>>
    /\ pc = "recv"
    /\ closed_by = ""
    /\ inbox = <<>>
    /\ sent = <<>>
    /\ pending = NoneV
    /\ last = NoCall
    /\ cycle = [g \in GroupKeys |-> <<>>]
    /\ stats = NoStats
    /\ agent = NoAgent

NextRecords == \E raw \in RecordFrames : Call(raw)

SpecRecords == InitRecords /\ [][NextRecords]_vars

\* the field is there and holds something
NonEmpty(data, key) ==
    /\ key \in DOMAIN data.v
    /\ data.v[key] \notin {StrV(""), NoneV, IntV(0), ListV(<<>>), DictV(<<>>)}

\* the latest frame was a record that does not look like a fragment
LastWasPlainRecord ==
    last.n > 0 /\ last.raw.val # NotJson /\ last.raw.val.t = "dict"
        /\ ~FragmentLike(last.raw.val)

\* C19: a record that is not fragment-like yields the first non-empty value
\* among its fields message, text, content, in that order, and the string
\* form of the record when all three are absent or empty.
C19_RecordMessageByPriority ==
    LastWasPlainRecord =>
        LET data == last.raw.val IN
        last.ret = Return(IF NonEmpty(data, "message") THEN data.v["message"]
                          ELSE IF NonEmpty(data, "text") THEN data.v["text"]
                          ELSE IF NonEmpty(data, "content") THEN data.v["content"]
                          ELSE StrV(StrOf(data)))

\* {message: "hello"} yields "hello"
C19_Witness ==
    /\ LastWasPlainRecord
    /\ last.raw.val = HelloRecord
    /\ last.ret = Return(StrV("hello"))

\* message before text, text before content, and the string form last
C19_WitnessPriority ==
    /\ last.n = 4
    /\ message_buffer = <<MessageTextRecord, TextContentRecord, EmptyMessageRecord,
                          EmptyFieldsRecord>>
    /\ last.ret = Return(StrV("{'message': '', 'text': '', 'content': ''}"))

-----------------------------------------------------------------------------
(* Progress of the responder call *)

\* the responder call returns: requests.post is given a timeout, so the
\* request ends with an answer or an exception, and run goes on from there
RespondStep ==
    \E outcome \in BackendOutcomes, connected \in BOOLEAN : Respond(outcome, connected)

NextLive ==
    \/ Connect
    \/ ConnectFails
    \/ \E raw \in MainFrames : Arrive(raw)
    \/ ReadFrame
    \/ RespondStep
    \/ \E user_input \in OperatorInputs, connected \in BOOLEAN :
            OperatorInput(user_input, connected)
    \/ \E how \in {"transport_closed", "transport_error"} : TransportCloses(how)

SpecLive == Init /\ [][NextLive]_vars /\ WF_vars(RespondStep)

\* C20: in autonomous mode a message handed to the responder is always
\* followed by run being back at reading the next frame or closed: run
\* never stays in the dispatching step.
C20_DispatchTerminates ==
    (auto_mode /\ pc = "dispatch") ~> (pc \in {"recv", "closed"})

C20_Witness ==
    /\ auto_mode
    /\ agent.started = 2
    /\ agent.returned = 2
    /\ agent.outcome = Timeout
    /\ pc = "recv"

-----------------------------------------------------------------------------
(* A completed group is never empty *)

\* the latest fragment brought its group up to the total it states
CompletionReached ==
    /\ TotalOf(last.raw.val).t = "int"
    /\ TotalOf(last.raw.val).v > 0
    /\ Len(LastAccumulated) >= TotalOf(last.raw.val).v

\* C21: what handle_message returns for a fragment that completes its group
\* is a non-empty message, also when the content fields of every fragment
\* are empty (the string form of the record stands in); so a None returned
\* for a fragment always means that the group is still waiting, with the
\* fragment kept in its accumulator, never that it completed empty.
C21_CompletedNeverEmpty ==
    LastWasFragment =>
        /\ (CompletionReached /\ last.ret.kind = "return") =>
                /\ last.ret.val # NoneV
                /\ last.ret.val.t = "str"
                /\ last.ret.val.v # ""
        /\ last.ret = Return(NoneV) =>
                ~CompletionReached /\ fragments[LastGroup] = LastAccumulated

C21_Witness ==
    /\ LastWasFragment
    /\ LastAccumulated = <<EmptyTextFrag, EmptyTextFrag>>
    /\ CompletionReached
    /\ last.ret = Return(StrV(StrOf(EmptyTextFrag) \o " " \o StrOf(EmptyTextFrag)))
    /\ Len(last.ret.val.v) > 50

-----------------------------------------------------------------------------
(* Frames sent and frames received *)

\* the step sends a frame
Sends == sent' # sent

\* run is answering the message of the latest frame
Answering == pc \in {"dispatch", "manual"}

\* C22: at most one frame is sent per inbound frame, and only in answer to
\* an inbound frame that yielded a message; nothing is sent for a fragment
\* that leaves its group incomplete.
C22_OneReplyPerMessage ==
    /\ [](Len(sent) + (IF Answering THEN 1 ELSE 0) <= stats.read)
    /\ [](Answering => Emitted(last.ret) /\ pending = last.ret.val
                            /\ last.raw = stats.arrived[stats.read])
    /\ [][Sends => /\ Len(sent') = Len(sent) + 1
                    /\ Answering
                    /\ ~Answering'
                    /\ last' = last]_vars
    /\ [][(HandledFrame /\ last'.ret = Return(NoneV)) =>
                sent' = sent /\ ~Answering']_vars

C22_Witness ==
    /\ enable_fragments
    /\ stats.read = 2
    /\ stats.arrived = <<Wire(Frag("g1", 1, 2)), Wire(Frag("g1", 2, 2))>>
    /\ Len(sent) = 1
    /\ last.ret = Return(StrV("a b"))
    /\ pc = "recv"

====
